---- MODULE Spec2Model ----
(***************************************************************************)
(* Model of eol-rebaser's migration rule engine (src/eol_rebaser).        *)
(*                                                                         *)
(* Strings are sequences of one-character strings.  A regular expression   *)
(* (from_pattern) is a sequence of pattern items; re.match and re.sub are  *)
(* modelled by a backtracking matcher that enumerates the matches in the   *)
(* priority order of Python's engine.  A replacement template (to_image)   *)
(* is a character sequence parsed the way re's parse_template parses it.   *)
(***************************************************************************)
EXTENDS Integers, Sequences, FiniteSets, TLC

VARIABLES
    files,          \* the persisted configuration: main file and drop-in directory
    loaded,         \* what ConfigManager.load_config returned or raised
    pending,        \* get_pending_migrations' return value: indices into config
    include_future, \* get_pending_migrations' argument
    config,         \* ImageMigrator.config["migrations"]: the ordered rule list
    now,            \* the wall clock read by datetime.now(), in ticks
    bootedImage,    \* the image bootc reports (status spec.image.image)
    pc,             \* position of the running call
    migration,      \* perform_migration's argument
    current_image,  \* argument of find_migration / local of perform_migration
    target_image,   \* local of perform_migration
    success,        \* local of perform_migration: result of rebase_to_image
    events,         \* collaborator calls made by the running invocation, in order
    records,        \* MigrationRecords emitted by _log_migration in this invocation
    result,         \* what the call returned: "none", "true", "false", "raised"
    found,          \* find_migration's return value: index into config, 0 for None
    called_at,      \* the instant at which find_migration ran, -1 before any call
    undelivered,    \* <<notification, channel>> pairs whose delivery failed
    args,           \* main's parsed command line: check, migrate, dry_run, force
    exit_code,      \* main's return value, NotExited while it runs
    output          \* what main printed: its last message and the 'To:' line

vars == <<files, loaded, pending, include_future, config, now, bootedImage, pc, migration, current_image, target_image,
          success, events, records, result, found, called_at, undelivered, args, exit_code, output>>

(* values of main's variables outside a run of main *)
NoArgs == [check |-> FALSE, migrate |-> FALSE, dry_run |-> FALSE, force |-> FALSE]
NotExited == -1
NoOutput == [message |-> "", to |-> << >>]

-----------------------------------------------------------------------------
(* Bounds of the model *)

MaxImageLen == 3    \* longest image reference the engine starts on
MaxMatchLen == 2    \* longest image reference handed to the matcher
MaxRules == 2       \* longest rule list handed to the matcher
MaxDay == 2         \* effective dates are the days 1..MaxDay
MaxRefLen == 3      \* longest reference handed to validate_image_reference

(* datetime has sub-day resolution: an instant is a tick, a day has
   TicksPerDay ticks, day D starts (local midnight) at tick D * TicksPerDay *)
TicksPerDay == 2
MaxNow == (MaxDay + 1) * TicksPerDay - 1

-----------------------------------------------------------------------------
(* State outside a call to ConfigManager.load_config *)

NoFiles == [main |-> [kind |-> "missing", content |-> << >>],
            dir |-> [exists |-> FALSE, entries |-> {}]]
NotLoaded == [status |-> "none", config |-> << >>]

-----------------------------------------------------------------------------
(* Sequence helpers *)

RECURSIVE Flatten(_)
Flatten(ss) ==
    IF Len(ss) = 0 THEN <<>> ELSE Head(ss) \o Flatten(Tail(ss))

RECURSIVE StringsUpTo(_, _)
StringsUpTo(chars, n) ==
    IF n = 0 THEN {<<>>}
    ELSE LET shorter == StringsUpTo(chars, n - 1)
         IN shorter \cup {Append(s, c) : s \in shorter, c \in chars}

Contains(s, c) == \E i \in 1..Len(s) : s[i] = c

-----------------------------------------------------------------------------
(* Regular expressions: the subset of Python's re syntax the rules use.    *)
(* An item is a literal character, ".*" (greedy), "^", "$", or a capture   *)
(* group "( body )" / "( body )?" numbered g by its opening parenthesis.   *)

Lit(c) == [k |-> "lit", c |-> c, g |-> 0, opt |-> FALSE, body |-> <<>>]
DotStar == [k |-> "dotstar", c |-> "", g |-> 0, opt |-> FALSE, body |-> <<>>]
Bol == [k |-> "bol", c |-> "", g |-> 0, opt |-> FALSE, body |-> <<>>]
Eol == [k |-> "eol", c |-> "", g |-> 0, opt |-> FALSE, body |-> <<>>]
Grp(g, opt, body) == [k |-> "grp", c |-> "", g |-> g, opt |-> opt, body |-> body]

RECURSIVE GroupCount(_)
GroupCount(items) ==
    IF Len(items) = 0 THEN 0
    ELSE (IF Head(items).k = "grp" THEN 1 + GroupCount(Head(items).body) ELSE 0)
         + GroupCount(Tail(items))

NoCapture == [set |-> FALSE, txt |-> <<>>]
NoCaptures(items) == [g \in 1..GroupCount(items) |-> NoCapture]

(* MatchSeq: every way items can match s starting at offset pos, as a
   sequence of [e |-> end offset, caps |-> captures] in the order the
   backtracking engine tries them; the first one is the match re reports. *)
RECURSIVE MatchSeq(_, _, _, _)
RECURSIVE MatchItem(_, _, _, _)
MatchItem(x, s, pos, caps) ==
    CASE x.k = "lit" ->
            IF pos < Len(s) /\ s[pos + 1] = x.c
            THEN << [e |-> pos + 1, caps |-> caps] >> ELSE <<>>
      [] x.k = "dotstar" ->
            [i \in 1..(Len(s) - pos + 1) |-> [e |-> Len(s) - i + 1, caps |-> caps]]
      [] x.k = "bol" ->
            IF pos = 0 THEN << [e |-> pos, caps |-> caps] >> ELSE <<>>
      [] x.k = "eol" ->
            IF pos = Len(s) THEN << [e |-> pos, caps |-> caps] >> ELSE <<>>
      [] x.k = "grp" ->
            LET inner == MatchSeq(x.body, s, pos, caps)
                taken == [i \in 1..Len(inner) |->
                            [e |-> inner[i].e,
                             caps |-> [inner[i].caps EXCEPT ![x.g] =
                                         [set |-> TRUE,
                                          txt |-> SubSeq(s, pos + 1, inner[i].e)]]]]
            IN IF x.opt THEN Append(taken, [e |-> pos, caps |-> caps]) ELSE taken

MatchSeq(items, s, pos, caps) ==
    IF Len(items) = 0 THEN << [e |-> pos, caps |-> caps] >>
    ELSE LET heads == MatchItem(Head(items), s, pos, caps)
         IN Flatten([i \in 1..Len(heads) |->
                        MatchSeq(Tail(items), s, heads[i].e, heads[i].caps)])

(* re.match(pattern, s): a match anchored at the start of s; it need not
   reach the end of s. *)
re_match(pattern, s) ==
    LET ms == MatchSeq(pattern, s, 0, NoCaptures(pattern))
    IN IF Len(ms) = 0 THEN [found |-> FALSE, b |-> 0, e |-> 0, caps |-> NoCaptures(pattern)]
       ELSE [found |-> TRUE, b |-> 0, e |-> ms[1].e, caps |-> ms[1].caps]

(* The match re.sub's scan finds next: the leftmost start >= i; at start i
   itself, when the previous match was empty (must_advance), an empty match
   is rejected and the engine backtracks for a non-empty one. *)
RECURSIVE Search(_, _, _, _, _)
Search(pattern, s, i, start, must_advance) ==
    IF start > Len(s)
    THEN [found |-> FALSE, b |-> 0, e |-> 0, caps |-> NoCaptures(pattern)]
    ELSE LET ms == MatchSeq(pattern, s, start, NoCaptures(pattern))
             ok == SelectSeq(ms, LAMBDA m : ~(must_advance /\ start = i /\ m.e = start))
         IN IF Len(ok) = 0 THEN Search(pattern, s, i, start + 1, must_advance)
            ELSE [found |-> TRUE, b |-> start, e |-> ok[1].e, caps |-> ok[1].caps]

-----------------------------------------------------------------------------
(* Replacement templates, parsed as re's parse_template parses them.       *)

Digits == {"0", "1", "2", "3", "4", "5", "6", "7", "8", "9"}
OctDigits == {"0", "1", "2", "3", "4", "5", "6", "7"}
DigitChars == <<"0", "1", "2", "3", "4", "5", "6", "7", "8", "9">>
DigitVal(c) == (CHOOSE n \in 1..10 : DigitChars[n] = c) - 1
AsciiLetters ==
    {"a", "b", "c", "d", "e", "f", "g", "h", "i", "j", "k", "l", "m",
     "n", "o", "p", "q", "r", "s", "t", "u", "v", "w", "x", "y", "z",
     "A", "B", "C", "D", "E", "F", "G", "H", "I", "J", "K", "L", "M",
     "N", "O", "P", "Q", "R", "S", "T", "U", "V", "W", "X", "Y", "Z"}

(* chr(n) for the characters the model writes out.  Whitespace characters
   other than " " that str.strip() removes are "\t", "\n", "\f", "\r" and
   the stand-in "<WS>"; every other character is the opaque "?" (a
   character no modelled pattern or image contains). *)
Chr(n) ==
    CASE n = 32 -> " " [] n = 58 -> ":" [] n = 60 -> "<" [] n = 62 -> ">"
      [] n = 92 -> "\\" [] n = 97 -> "a" [] n = 98 -> "b" [] n = 103 -> "g"
      [] n = 113 -> "q" [] n = 120 -> "x" [] n = 47 -> "/"
      [] n \in 48..57 -> DigitChars[n - 47]
      [] n = 9 -> "\t" [] n = 10 -> "\n" [] n = 12 -> "\f" [] n = 13 -> "\r"
      [] n \in {11, 28, 29, 30, 31, 133, 160} -> "<WS>"
      [] OTHER -> "?"
Whitespace == {" ", "\t", "\n", "\f", "\r", "<WS>"}

(* sre_parse.ESCAPES restricted to replacement strings *)
EscapeLetters == {"a", "b", "f", "n", "r", "t", "v", "\\"}
EscapeCode(c) ==
    CASE c = "a" -> 7 [] c = "b" -> 8 [] c = "f" -> 12 [] c = "n" -> 10
      [] c = "r" -> 13 [] c = "t" -> 9 [] c = "v" -> 11 [] c = "\\" -> 92

LitPart(c) == [lit |-> TRUE, ch |-> c, g |-> 0]
GroupPart(g) == [lit |-> FALSE, ch |-> "", g |-> g]

ParseOk(parts) == [status |-> "ok", parts |-> parts]
ParseFail(exc) == [status |-> exc, parts |-> <<>>]
Prepend(parts, r) ==
    IF r.status = "ok" THEN ParseOk(parts \o r.parts) ELSE r

RECURSIVE DecimalValue(_)
DecimalValue(name) ==
    IF Len(name) = 0 THEN 0
    ELSE 10 * DecimalValue(SubSeq(name, 1, Len(name) - 1)) + DigitVal(name[Len(name)])

(* str.isidentifier() on the characters of the model *)
IsIdentifier(name) ==
    /\ Len(name) > 0
    /\ name[1] \in AsciiLetters \cup {"_"}
    /\ \A j \in 1..Len(name) : name[j] \in AsciiLetters \cup Digits \cup {"_"}

(* index of the first ">" at or after j, 0 when there is none *)
RECURSIVE FindClose(_, _)
FindClose(t, j) ==
    IF j > Len(t) THEN 0 ELSE IF t[j] = ">" THEN j ELSE FindClose(t, j + 1)

(* parse_template(t) against a pattern with `groups` groups and no named
   group: the parts of the template, or the exception it raises. *)
RECURSIVE parse_template(_, _, _)
parse_template(t, i, groups) ==
    IF i > Len(t) THEN ParseOk(<<>>)
    ELSE IF t[i] # "\\" THEN Prepend(<<LitPart(t[i])>>, parse_template(t, i + 1, groups))
    ELSE IF i = Len(t) THEN ParseFail("re.error")     \* bad escape (end of pattern)
    ELSE LET c == t[i + 1] IN
      CASE c = "g" ->
             IF i + 2 > Len(t) \/ t[i + 2] # "<" THEN ParseFail("re.error")  \* missing <
             ELSE LET close == FindClose(t, i + 3)
                      name == SubSeq(t, i + 3, close - 1)
                  IN IF close = 0 THEN ParseFail("re.error")          \* missing >
                     ELSE IF Len(name) = 0 THEN ParseFail("re.error") \* missing group name
                     ELSE IF IsIdentifier(name)
                          THEN ParseFail("IndexError")               \* unknown group name
                     ELSE IF \A j \in 1..Len(name) : name[j] \in Digits
                          THEN IF DecimalValue(name) > groups
                               THEN ParseFail("re.error")            \* invalid group reference
                               ELSE Prepend(<<GroupPart(DecimalValue(name))>>,
                                            parse_template(t, close + 1, groups))
                     ELSE ParseFail("re.error")                      \* bad character in group name
        [] c = "0" ->
             LET n1 == IF i + 2 <= Len(t) /\ t[i + 2] \in OctDigits THEN 1 ELSE 0
                 n2 == IF n1 = 1 /\ i + 3 <= Len(t) /\ t[i + 3] \in OctDigits THEN 1 ELSE 0
                 v == IF n1 = 0 THEN 0
                      ELSE IF n2 = 0 THEN DigitVal(t[i + 2])
                      ELSE 8 * DigitVal(t[i + 2]) + DigitVal(t[i + 3])
             IN Prepend(<<LitPart(Chr(v))>>, parse_template(t, i + 2 + n1 + n2, groups))
        [] c \in Digits \ {"0"} ->
             IF i + 2 <= Len(t) /\ t[i + 2] \in Digits
             THEN IF /\ c \in OctDigits /\ t[i + 2] \in OctDigits
                     /\ i + 3 <= Len(t) /\ t[i + 3] \in OctDigits
                  THEN LET v == 64 * DigitVal(c) + 8 * DigitVal(t[i + 2]) + DigitVal(t[i + 3])
                       IN IF v > 255 THEN ParseFail("re.error")      \* octal escape out of range
                          ELSE Prepend(<<LitPart(Chr(v))>>, parse_template(t, i + 4, groups))
                  ELSE LET idx == 10 * DigitVal(c) + DigitVal(t[i + 2])
                       IN IF idx > groups THEN ParseFail("re.error")
                          ELSE Prepend(<<GroupPart(idx)>>, parse_template(t, i + 3, groups))
             ELSE IF DigitVal(c) > groups THEN ParseFail("re.error")  \* invalid group reference
                  ELSE Prepend(<<GroupPart(DigitVal(c))>>, parse_template(t, i + 2, groups))
        [] c \in EscapeLetters ->
             Prepend(<<LitPart(Chr(EscapeCode(c)))>>, parse_template(t, i + 2, groups))
        [] c \in AsciiLetters \ (EscapeLetters \cup {"g"}) ->
             ParseFail("re.error")                                    \* bad escape
        [] OTHER ->
             Prepend(<<LitPart("\\"), LitPart(c)>>, parse_template(t, i + 2, groups))

(* The text a parsed template expands to for one match: "\g<0>" is the
   whole match, a group that did not participate expands to "". *)
RECURSIVE Expand(_, _, _)
Expand(parts, s, m) ==
    IF Len(parts) = 0 THEN <<>>
    ELSE LET p == Head(parts)
             txt == IF p.lit THEN <<p.ch>>
                    ELSE IF p.g = 0 THEN SubSeq(s, m.b + 1, m.e)
                    ELSE IF m.caps[p.g].set THEN m.caps[p.g].txt ELSE <<>>
         IN txt \o Expand(Tail(parts), s, m)

(* The loop of re.sub: copy the text between matches, expand the template
   for every non-overlapping match, left to right. *)
RECURSIVE SubFrom(_, _, _, _, _)
SubFrom(pattern, parts, s, i, must_advance) ==
    LET m == Search(pattern, s, i, i, must_advance)
    IN IF ~m.found THEN SubSeq(s, i + 1, Len(s))
       ELSE SubSeq(s, i + 1, m.b) \o Expand(parts, s, m)
            \o SubFrom(pattern, parts, s, m.e, m.e = m.b)

(* re.sub(pattern, repl, s).  A repl without a backslash is used literally;
   otherwise it is parsed first, whether or not the pattern matches. *)
re_sub(pattern, repl, s) ==
    LET parsed == IF Contains(repl, "\\")
                  THEN parse_template(repl, 1, GroupCount(pattern))
                  ELSE ParseOk([j \in 1..Len(repl) |-> LitPart(repl[j])])
    IN IF parsed.status = "ok"
       THEN [status |-> "ok", out |-> SubFrom(pattern, parsed.parts, s, 0, FALSE)]
       ELSE [status |-> parsed.status, out |-> <<>>]

-----------------------------------------------------------------------------
(* Rules *)

NoDate == [kind |-> "absent", day |-> 0]      \* no effective_date key
OnDay(d) == [kind |-> "date", day |-> d]      \* "YYYY-MM-DD" naming day d
BadDate == [kind |-> "bad", day |-> 0]        \* a non-empty string strptime rejects

Rule(name, from_pattern, to_image, effective_date) ==
    [name |-> name, from_pattern |-> from_pattern, to_image |-> to_image,
     reason |-> "eol", effective_date |-> effective_date]

(* datetime.strptime(effective_date, "%Y-%m-%d"): local midnight at the
   start of the day *)
strptime(effective_date) == effective_date.day * TicksPerDay

(* from_pattern values *)
PatA == << Lit("a") >>                                         \* "a"
PatB == << Lit("b") >>                                         \* "b"
PatExactAB == << Bol, Lit("a"), Lit("b"), Eol >>               \* "^ab$"
PatAStar == << Lit("a"), Grp(1, FALSE, <<DotStar>>) >>         \* "a(.*)"
PatAny == << Grp(1, FALSE, <<DotStar>>) >>                     \* "(.*)"
PatFamily == << Bol, Lit("a"), Grp(1, TRUE, <<Lit("b")>>),
                Grp(2, FALSE, <<DotStar>>), Eol >>             \* "^a(b)?(.*)$"
PatEmpty == <<>>                                               \* ""

(* to_image values *)
TplB == << "b" >>                                   \* "b"
TplAB == << "a", "b" >>                             \* "ab"
TplBlank == << " " >>                               \* " "
TplNone == <<>>                                     \* ""
TplBRef1 == << "b", "\\", "1" >>                    \* "b\1"
TplARef1 == << "a", "\\", "1" >>                    \* "a\1"
TplRef12 == << "x", "\\", "1", ":", "\\", "2" >>    \* "x\1:\2"
TplG1 == << "\\", "g", "<", "1", ">" >>             \* "\g<1>"
TplNamed == << "\\", "g", "<", "x", ">" >>          \* "\g<x>"
TplBadEscape == << "b", "\\", "q" >>                \* "b\q"
TplRef3 == << "b", "\\", "3" >>                     \* "b\3"
TplBackslash == << "a", "\\", "\\" >>               \* "a\\"

ImageChars == {"a", "b"}
Images == StringsUpTo(ImageChars, MaxImageLen) \ {<<>>}

-----------------------------------------------------------------------------
(* ImageMigrator: the matcher *)

(* variant: the rule only becomes applicable after the effective instant *)
_is_migration_applicable_strictly_after(m, image, t) ==
    IF ~re_match(m.from_pattern, image).found THEN FALSE
    ELSE IF m.effective_date.kind = "absent" THEN TRUE
    ELSE IF m.effective_date.kind = "date"
         THEN ~(t <= strptime(m.effective_date))
         ELSE TRUE

_is_migration_applicable(m, image, t) ==
    IF ~re_match(m.from_pattern, image).found THEN FALSE
    ELSE IF m.effective_date.kind = "absent" THEN TRUE
    ELSE IF m.effective_date.kind = "date"
         THEN ~(t < strptime(m.effective_date))
         ELSE TRUE        \* ValueError: logged, the rule stays applicable

(* the for loop of find_migration from index i on: the index of the first
   applicable rule, 0 for None *)
RECURSIVE find_migration_from(_, _, _, _)
find_migration_from(migrations, i, image, t) ==
    IF i > Len(migrations) THEN 0
    ELSE IF _is_migration_applicable(migrations[i], image, t) THEN i
    ELSE find_migration_from(migrations, i + 1, image, t)

(* variant: the last applicable rule wins *)
find_migration_last(migrations, image, t) ==
    LET hits == {i \in 1..Len(migrations) :
                    _is_migration_applicable(migrations[i], image, t)}
    IN IF hits = {} THEN 0 ELSE CHOOSE i \in hits : \A j \in hits : j <= i

(* variant: the scan stops at the first rule whose pattern matches *)
find_migration_stop_at_match(migrations, image, t) ==
    LET hits == {i \in 1..Len(migrations) :
                    re_match(migrations[i].from_pattern, image).found}
        first == CHOOSE i \in hits : \A j \in hits : i <= j
    IN IF hits = {} THEN 0
       ELSE IF _is_migration_applicable(migrations[first], image, t) THEN first ELSE 0

find_migration(migrations, image, t) == find_migration_from(migrations, 1, image, t)

-----------------------------------------------------------------------------
(* ImageMigrator: target resolution *)

(* variant: every to_image is used as a substitution template *)
_resolve_target_image_always_sub(m, image) ==
    LET r == re_sub(m.from_pattern, m.to_image, image)
    IN IF r.status = "ok" THEN [raised |-> FALSE, target |-> r.out]
       ELSE IF r.status = "re.error" THEN [raised |-> FALSE, target |-> m.to_image]
       ELSE [raised |-> TRUE, target |-> <<>>]

(* variant: the template is never expanded *)
_resolve_target_image_verbatim(m, image) ==
    IF Contains(m.to_image, "\\") /\ Len(m.from_pattern) > 0
    THEN LET r == re_sub(m.from_pattern, m.to_image, image)
         IN IF r.status = "IndexError" THEN [raised |-> TRUE, target |-> <<>>]
            ELSE [raised |-> FALSE, target |-> m.to_image]
    ELSE [raised |-> FALSE, target |-> m.to_image]

(* The value returned, or the exception that leaves the function.  The
   handler catches re.error only. *)
_resolve_target_image(m, image) ==
    IF Contains(m.to_image, "\\") /\ Len(m.from_pattern) > 0
    THEN LET r == re_sub(m.from_pattern, m.to_image, image)
         IN IF r.status = "ok" THEN [raised |-> FALSE, target |-> r.out]
            ELSE IF r.status = "re.error" THEN [raised |-> FALSE, target |-> m.to_image]
            ELSE [raised |-> TRUE, target |-> <<>>]
    ELSE [raised |-> FALSE, target |-> m.to_image]

-----------------------------------------------------------------------------
(* BootcManager *)

RECURSIVE lstrip(_)
lstrip(s) == IF Len(s) > 0 /\ Head(s) \in Whitespace THEN lstrip(Tail(s)) ELSE s
RECURSIVE rstrip(_)
rstrip(s) ==
    IF Len(s) > 0 /\ s[Len(s)] \in Whitespace THEN rstrip(SubSeq(s, 1, Len(s) - 1)) ELSE s
strip(s) == rstrip(lstrip(s))

(* variant: only the emptiness test of lines 209-210 *)
validate_image_reference_nonempty(image) == Len(image) > 0

validate_image_reference(image) ==
    IF Len(image) = 0 THEN FALSE
    ELSE IF Contains(image, "/") \/ Contains(image, ":") THEN TRUE
    ELSE Len(strip(image)) > 0

-----------------------------------------------------------------------------
(* Collaborator calls recorded in `events` *)

StartEvent(name, from, to, reason) ==
    [ev |-> "start", name |-> name, from |-> from, to |-> to, detail |-> reason]
SwitchEvent(to) ==
    [ev |-> "switch", name |-> "", from |-> <<>>, to |-> to, detail |-> ""]
SwitchReturnEvent(to, ok) ==
    [ev |-> "switch_return", name |-> "", from |-> <<>>, to |-> to,
     detail |-> IF ok THEN "True" ELSE "False"]
SuccessEvent(name, to) ==
    [ev |-> "success", name |-> name, from |-> <<>>, to |-> to, detail |-> ""]
FailureEvent(name, error) ==
    [ev |-> "failure", name |-> name, from |-> <<>>, to |-> <<>>, detail |-> error]

(* the log_entry of _log_migration *)
_log_migration(m, from_image, to_image, t) ==
    [timestamp |-> t, migration_name |-> m.name, from_image |-> from_image,
     to_image |-> to_image, reason |-> m.reason, effective_date |-> m.effective_date]

NoMigration == Rule("", <<>>, <<>>, NoDate)

-----------------------------------------------------------------------------
(* ImageMigrator.perform_migration(migration), one step per statement that
   calls a collaborator or returns.  BootcManager.get_current_image and
   rebase_to_image catch every Exception and NotificationManager's channels
   swallow their delivery failures, so no statement of the try block
   (lines 163-188) raises and the handler of lines 190-193 is never
   entered; the only exception that leaves perform_migration is the one
   _resolve_target_image lets through at line 146, outside the try. *)

(* variant: the `if not current_image` return of lines 141-143 is missing *)
pm_get_current_image_unchecked ==
    /\ pc = "Idle"
    /\ \E available \in BOOLEAN :
         current_image' = (IF available THEN bootedImage ELSE <<>>)
    /\ pc' = "CurrentImageResolved"
    /\ UNCHANGED <<args, exit_code, output, undelivered,
                   files, loaded, pending, include_future,
                   config, now, bootedImage, migration, target_image, success,
                   events, records, result, found, called_at>>

(* lines 136-143: query the current image; None (status command failed,
   timed out, unparsable, no image in the output) returns False at once *)
pm_get_current_image ==
    /\ pc = "Idle"
    /\ \E available \in BOOLEAN :
         IF available
         THEN /\ current_image' = bootedImage
              /\ pc' = "CurrentImageResolved"
              /\ result' = result
         ELSE /\ current_image' = <<>>
              /\ pc' = "Failed"
              /\ result' = "false"
    /\ UNCHANGED <<args, exit_code, output, undelivered,
                   files, loaded, pending, include_future,
                   config, now, bootedImage, migration, target_image, success,
                   events, records, found, called_at>>

(* line 146 *)
pm_resolve_target ==
    /\ pc = "CurrentImageResolved"
    /\ LET r == _resolve_target_image(migration, current_image)
       IN IF r.raised
          THEN /\ pc' = "Raised"
               /\ result' = "raised"
               /\ target_image' = target_image
          ELSE /\ pc' = "TargetResolved"
               /\ result' = result
               /\ target_image' = r.target
    /\ UNCHANGED <<args, exit_code, output, undelivered,
                   files, loaded, pending, include_future,
                   config, now, bootedImage, migration, current_image, success,
                   events, records, found, called_at>>

(* variant: no already-there check *)
pm_check_target_always_switch ==
    /\ pc = "TargetResolved"
    /\ IF ~validate_image_reference(target_image)
       THEN pc' = "Failed" /\ result' = "false"
       ELSE pc' = "Starting" /\ result' = result
    /\ UNCHANGED <<args, exit_code, output, undelivered,
                   files, loaded, pending, include_future,
                   config, now, bootedImage, migration, current_image,
                   target_image, success, events, records, found, called_at>>

(* variant: the target is not validated before the switch *)
pm_check_target_unvalidated ==
    /\ pc = "TargetResolved"
    /\ IF current_image = target_image
       THEN pc' = "NoOpSuccess" /\ result' = "true"
       ELSE pc' = "Starting" /\ result' = result
    /\ UNCHANGED <<args, exit_code, output, undelivered,
                   files, loaded, pending, include_future,
                   config, now, bootedImage, migration, current_image,
                   target_image, success, events, records, found, called_at>>

(* lines 153-161: validate the target, then the already-there check *)
pm_check_target ==
    /\ pc = "TargetResolved"
    /\ IF ~validate_image_reference(target_image)
       THEN pc' = "Failed" /\ result' = "false"
       ELSE IF current_image = target_image
       THEN pc' = "NoOpSuccess" /\ result' = "true"
       ELSE pc' = "Starting" /\ result' = result
    /\ UNCHANGED <<args, exit_code, output, undelivered,
                   files, loaded, pending, include_future,
                   config, now, bootedImage, migration, current_image,
                   target_image, success, events, records, found, called_at>>

(* notifications.py 52-126: each notification goes to the desktop (when one is
   available), the journal and the wall broadcast; notifications.py 147-220:
   each channel catches the Exception of its own delivery and logs it, so a
   failed delivery leaves nothing but the missing message *)
Channels == {"desktop", "journal", "wall"}
DeliveryFailures(notification, failed) == {<<notification, c>> : c \in failed}

(* variant: the switch is started without the start notification *)
pm_notify_start_skipped ==
    /\ pc = "Starting"
    /\ pc' = "Started"
    /\ UNCHANGED <<args, exit_code, output, undelivered,
                   files, loaded, pending, include_future,
                   config, now, bootedImage, migration, current_image, target_image,
                   success, events, records, result, found, called_at>>

(* variant: a channel lets its delivery failure through, into the handler of
   lines 190-193, which notifies the failure and returns False *)
pm_notify_start_blocking ==
    /\ pc = "Starting"
    /\ \E failed \in SUBSET Channels :
         /\ undelivered' = undelivered \cup DeliveryFailures("start", failed)
         /\ IF failed = {}
            THEN /\ events' = Append(events, StartEvent(migration.name, current_image,
                                                        target_image, migration.reason))
                 /\ pc' = "Started"
                 /\ result' = result
            ELSE /\ events' = events \o
                        << StartEvent(migration.name, current_image,
                                      target_image, migration.reason),
                           FailureEvent(migration.name, "delivery failed") >>
                 /\ pc' = "Failed"
                 /\ result' = "false"
    /\ UNCHANGED <<args, exit_code, output,
                   files, loaded, pending, include_future,
                   config, now, bootedImage, migration, current_image,
                   target_image, success, records, found, called_at>>

(* lines 163-167 *)
pm_notify_start ==
    /\ pc = "Starting"
    /\ events' = Append(events, StartEvent(migration.name, current_image,
                                           target_image, migration.reason))
    /\ \E failed \in SUBSET Channels : undelivered' = undelivered \cup DeliveryFailures("start", failed)
    /\ pc' = "Started"
    /\ UNCHANGED <<args, exit_code, output,
                   files, loaded, pending, include_future,
                   config, now, bootedImage, migration, current_image,
                   target_image, success, records, result, found, called_at>>

(* line 171: rebase_to_image is invoked with the target *)
pm_rebase_call ==
    /\ pc = "Started"
    /\ events' = Append(events, SwitchEvent(target_image))
    /\ pc' = "Switching"
    /\ UNCHANGED <<args, exit_code, output, undelivered,
                   files, loaded, pending, include_future,
                   config, now, bootedImage, migration, current_image,
                   target_image, success, records, result, found, called_at>>

(* line 171, bootc.py 88-120: `bootc switch` exits 0 and the system now
   tracks the target, or it fails (non-zero exit, timeout, any exception)
   and rebase_to_image returns False *)
pm_rebase_return ==
    /\ pc = "Switching"
    /\ \E ok \in BOOLEAN :
         /\ success' = ok
         /\ bootedImage' = IF ok THEN target_image ELSE bootedImage
         /\ events' = Append(events, SwitchReturnEvent(target_image, ok))
    /\ pc' = "Switched"
    /\ UNCHANGED <<args, exit_code, output, undelivered,
                   files, loaded, pending, include_future,
                   config, now, migration, current_image, target_image,
                   records, result, found, called_at>>

(* variant: the success is notified but no record is written *)
pm_on_success_no_record ==
    /\ pc = "Switched"
    /\ success
    /\ events' = Append(events, SuccessEvent(migration.name, target_image))
    /\ pc' = "Success"
    /\ result' = "true"
    /\ UNCHANGED <<args, exit_code, output, undelivered,
                   files, loaded, pending, include_future,
                   config, now, bootedImage, migration, current_image,
                   target_image, success, records, found, called_at>>

(* lines 173-182 *)
pm_on_success ==
    /\ pc = "Switched"
    /\ success
    /\ events' = Append(events, SuccessEvent(migration.name, target_image))
    /\ records' = Append(records, _log_migration(migration, current_image,
                                                 target_image, now))
    /\ \E failed \in SUBSET Channels : undelivered' = undelivered \cup DeliveryFailures("success", failed)
    /\ pc' = "Success"
    /\ result' = "true"
    /\ UNCHANGED <<args, exit_code, output,
                   files, loaded, pending, include_future,
                   config, now, bootedImage, migration, current_image,
                   target_image, success, found, called_at>>

(* variant: a failed switch is notified but reported to the caller as done *)
pm_on_failure_returns_true ==
    /\ pc = "Switched"
    /\ ~success
    /\ events' = Append(events, FailureEvent(migration.name, "Rebase operation failed"))
    /\ \E failed \in SUBSET Channels : undelivered' = undelivered \cup DeliveryFailures("failure", failed)
    /\ pc' = "Failed"
    /\ result' = "true"
    /\ UNCHANGED <<args, exit_code, output,
                   files, loaded, pending, include_future,
                   config, now, bootedImage, migration, current_image,
                   target_image, success, records, found, called_at>>

(* lines 183-188 *)
pm_on_failure ==
    /\ pc = "Switched"
    /\ ~success
    /\ events' = Append(events, FailureEvent(migration.name, "Rebase operation failed"))
    /\ \E failed \in SUBSET Channels : undelivered' = undelivered \cup DeliveryFailures("failure", failed)
    /\ pc' = "Failed"
    /\ result' = "false"
    /\ UNCHANGED <<args, exit_code, output,
                   files, loaded, pending, include_future,
                   config, now, bootedImage, migration, current_image,
                   target_image, success, records, found, called_at>>

perform_migration ==
    \/ pm_get_current_image
    \/ pm_resolve_target
    \/ pm_check_target
    \/ pm_notify_start
    \/ pm_rebase_call
    \/ pm_rebase_return
    \/ pm_on_success
    \/ pm_on_failure

(* The rules handed to the engine: every pattern with every template *)
EnginePatterns == {PatA, PatAStar, PatAny, PatFamily, PatEmpty}
EngineTemplates == {TplB, TplAB, TplBlank, TplNone, TplBRef1, TplARef1, TplRef12,
                    TplG1, TplNamed, TplBadEscape, TplRef3, TplBackslash}
EngineRules == {Rule("m1", p, t, NoDate) : p \in EnginePatterns, t \in EngineTemplates}

Init ==
    /\ migration \in EngineRules
    /\ config = <<migration>>
    /\ bootedImage \in Images
    /\ now = 0
    /\ pc = "Idle"
    /\ current_image = <<>>
    /\ target_image = <<>>
    /\ success = FALSE
    /\ events = <<>>
    /\ records = <<>>
    /\ result = "none"
    /\ found = 0
    /\ called_at = -1
    /\ files = NoFiles
    /\ loaded = NotLoaded
    /\ pending = <<>>
    /\ include_future = FALSE
    /\ undelivered = {}
    /\ args = NoArgs
    /\ exit_code = NotExited
    /\ output = NoOutput

Next == perform_migration

Spec == Init /\ [][Next]_vars

-----------------------------------------------------------------------------
(* The matcher on its own: find_migration(current image) over rule lists,
   called at any instant *)

FindPatterns == {PatA, PatB, PatExactAB}
EffectiveDates == {NoDate, BadDate} \cup {OnDay(d) : d \in 1..MaxDay}
FindRules == {Rule("m1", p, TplB, d) : p \in FindPatterns, d \in EffectiveDates}

RECURSIVE RuleLists(_)
RuleLists(n) ==
    IF n = 0 THEN {<<>>}
    ELSE LET shorter == RuleLists(n - 1)
         IN shorter \cup {Append(l, r) : l \in shorter, r \in FindRules}

(* migrator.py 35-59 as called from main.py 112 *)
call_find_migration ==
    /\ pc = "Idle"
    /\ current_image' = bootedImage
    /\ found' = find_migration(config, bootedImage, now)
    /\ called_at' = now
    /\ pc' = "Returned"
    /\ UNCHANGED <<args, exit_code, output, undelivered,
                   files, loaded, pending, include_future,
                   config, now, bootedImage, migration, target_image,
                   success, events, records, result>>

(* get_pending_migrations(current_image, include_future), lines 219-256:
   the indices of the rules appended to `pending`, in the order of the loop.
   A rule whose effective_date strptime rejects is skipped (lines 250-252)
   when include_future is false. *)
RECURSIVE get_pending_migrations_from(_, _, _, _, _)
get_pending_migrations_from(migrations, i, image, future, t) ==
    IF i > Len(migrations) THEN << >>
    ELSE LET m == migrations[i]
             rest == get_pending_migrations_from(migrations, i + 1, image, future, t)
             skipped ==
                 IF ~re_match(m.from_pattern, image).found THEN TRUE
                 ELSE IF future THEN FALSE
                 ELSE IF m.effective_date.kind = "absent" THEN FALSE
                 ELSE IF m.effective_date.kind = "date"
                      THEN t < strptime(m.effective_date)
                      ELSE TRUE
         IN IF skipped THEN rest ELSE <<i>> \o rest
get_pending_migrations(migrations, image, future, t) ==
    get_pending_migrations_from(migrations, 1, image, future, t)

(* the diagnostic query, made on the image and at the instant of the
   find_migration call *)
call_get_pending_migrations ==
    /\ pc = "Returned"
    /\ \E future \in BOOLEAN :
         /\ include_future' = future
         /\ pending' = get_pending_migrations(config, current_image, future, now)
    /\ pc' = "Queried"
    /\ UNCHANGED <<args, exit_code, output, undelivered,
                   files, loaded, config, now, bootedImage, migration, current_image,
                   target_image, success, events, records, result, found, called_at>>

(* time passes until the call is made *)
Tick ==
    /\ pc = "Idle"
    /\ now < MaxNow
    /\ now' = now + 1
    /\ UNCHANGED <<args, exit_code, output, undelivered,
                   files, loaded, pending, include_future,
                   config, bootedImage, pc, migration, current_image, target_image,
                   success, events, records, result, found, called_at>>

InitFind ==
    /\ config \in RuleLists(MaxRules)
    /\ bootedImage \in StringsUpTo(ImageChars, MaxMatchLen) \ {<<>>}
    /\ now = 0
    /\ pc = "Idle"
    /\ migration = NoMigration
    /\ current_image = <<>>
    /\ target_image = <<>>
    /\ success = FALSE
    /\ events = <<>>
    /\ records = <<>>
    /\ result = "none"
    /\ found = 0
    /\ called_at = -1
    /\ files = NoFiles
    /\ loaded = NotLoaded
    /\ pending = <<>>
    /\ include_future = FALSE
    /\ undelivered = {}
    /\ args = NoArgs
    /\ exit_code = NotExited
    /\ output = NoOutput

NextFind == call_find_migration \/ call_get_pending_migrations \/ Tick

SpecFind == InitFind /\ [][NextFind]_vars

-----------------------------------------------------------------------------
(* Properties of the matcher (SpecFind) *)

PatternMatches(r, image) == re_match(r.from_pattern, image).found
(* a rule is inactive before local midnight at the start of its effective day *)
NotYetEffective(r, t) ==
    r.effective_date.kind = "date" /\ t < r.effective_date.day * TicksPerDay
Qualifies(r, image, t) == PatternMatches(r, image) /\ ~NotYetEffective(r, t)

(* a pattern made of literal characters only, and the images that start
   with exactly those characters *)
OnlyLiterals(r) ==
    \A k \in 1..Len(r.from_pattern) : r.from_pattern[k].k = "lit"
StartsWith(image, r) ==
    /\ Len(r.from_pattern) <= Len(image)
    /\ \A k \in 1..Len(r.from_pattern) : image[k] = r.from_pattern[k].c

(* C1: find_migration returns the earliest rule, in list order, whose
   from_pattern matches the image from its start (a prefix match: a
   literal pattern matches every image that starts with it) and that is
   active at the instant of the call; it returns None exactly when no rule
   is both. *)
C1_FirstActiveMatch ==
    called_at >= 0 =>
        /\ found \in 0..Len(config)
        /\ \A j \in 1..Len(config) :
              OnlyLiterals(config[j]) =>
                  (PatternMatches(config[j], current_image)
                   <=> StartsWith(current_image, config[j]))
        /\ found # 0 =>
              /\ Qualifies(config[found], current_image, called_at)
              /\ \A j \in 1..(found - 1) : ~Qualifies(config[j], current_image, called_at)
        /\ found = 0 <=>
              \A j \in 1..Len(config) : ~Qualifies(config[j], current_image, called_at)

(* the second rule was returned on a match that stops short of the end of
   the image, after a first rule that qualifies neither way *)
C1_Witness ==
    /\ called_at >= 0
    /\ found = 2
    /\ re_match(config[2].from_pattern, current_image).e < Len(current_image)
    /\ Qualifies(config[2], current_image, called_at)

(* C2: when a pattern-matching rule r1 that is not yet effective precedes
   a pattern-matching active rule r2 (the first active match of the list),
   find_migration returns r2, neither None nor r1. *)
C2_ScansPastInactiveMatch ==
    called_at >= 0 =>
        \A i, j \in 1..Len(config) :
            ( /\ i < j
              /\ PatternMatches(config[i], current_image)
              /\ NotYetEffective(config[i], called_at)
              /\ Qualifies(config[j], current_image, called_at)
              /\ \A k \in 1..(j - 1) : ~Qualifies(config[k], current_image, called_at) )
            => found = j

C2_Witness ==
    /\ called_at >= 0
    /\ Len(config) >= 2
    /\ PatternMatches(config[1], current_image)
    /\ NotYetEffective(config[1], called_at)
    /\ Qualifies(config[2], current_image, called_at)
    /\ found = 2

(* C3: a pattern-matching rule with effective date D is not applicable at
   any instant before local midnight at the start of D and is applicable at
   every instant from that midnight on; without an effective date it is
   applicable at every instant. *)
C3_EffectiveFromMidnight ==
    \A i \in 1..Len(config) :
        PatternMatches(config[i], bootedImage) =>
            /\ config[i].effective_date.kind = "date" =>
                  ( _is_migration_applicable(config[i], bootedImage, now)
                    <=> now >= config[i].effective_date.day * TicksPerDay )
            /\ config[i].effective_date.kind = "absent" =>
                  _is_migration_applicable(config[i], bootedImage, now)

(* a dated rule was returned by a call made exactly at its midnight *)
C3_Witness ==
    /\ called_at >= 0
    /\ found # 0
    /\ config[found].effective_date.kind = "date"
    /\ called_at = config[found].effective_date.day * TicksPerDay
    /\ now = called_at

-----------------------------------------------------------------------------
(* Properties of the engine (Spec) *)

(* perform_migration has got past line 146 *)
Resolved ==
    \/ pc \in {"TargetResolved", "NoOpSuccess", "Starting", "Started",
               "Switching", "Switched", "Success"}
    \/ pc = "Failed" /\ current_image # <<>>
Returned == pc \in {"NoOpSuccess", "Success", "Failed"}
EventsOf(kind) == {i \in 1..Len(events) : events[i].ev = kind}
SwitchInvoked == EventsOf("switch") # {}
SwitchReported(ok) ==
    \E i \in 1..Len(events) : events[i] = SwitchReturnEvent(target_image, ok)

(* C4: when the resolved target equals the current image, perform_migration
   returns success and rebase_to_image is not invoked in that invocation. *)
C4_NoOpWithoutSwitch ==
    (Resolved /\ target_image = current_image) =>
        /\ ~SwitchInvoked
        /\ pc \in {"TargetResolved", "NoOpSuccess"}
        /\ pc = "NoOpSuccess" => result = "true"

(* a back-reference template that resolved to the image already booted *)
C4_Witness ==
    /\ pc = "NoOpSuccess"
    /\ result = "true"
    /\ target_image = current_image
    /\ Contains(migration.to_image, "\\")
    /\ events = <<>>

(* C5: with a target different from the current image, a switch that
   reports success is followed by the success notification carrying the
   rule name and the resolved target, by exactly one MigrationRecord, and
   by the result true; a switch that reports failure by a failure
   notification, no MigrationRecord and the result false. *)
C5_SwitchOutcomeReported ==
    /\ SwitchInvoked => current_image # target_image
    /\ Returned /\ SwitchReported(TRUE) =>
          /\ pc = "Success"
          /\ result = "true"
          /\ events[Len(events)] = SuccessEvent(migration.name, target_image)
          /\ Cardinality(EventsOf("success")) = 1
          /\ EventsOf("failure") = {}
          /\ Len(records) = 1
          /\ records[1].migration_name = migration.name
          /\ records[1].from_image = current_image
          /\ records[1].to_image = target_image
    /\ Returned /\ SwitchReported(FALSE) =>
          /\ pc = "Failed"
          /\ result = "false"
          /\ events[Len(events)].ev = "failure"
          /\ events[Len(events)].name = migration.name
          /\ EventsOf("success") = {}
          /\ records = <<>>

(* a template rule whose switch succeeded *)
C5_Witness ==
    /\ pc = "Success"
    /\ SwitchReported(TRUE)
    /\ Contains(migration.to_image, "\\")
    /\ Len(records) = 1
    /\ bootedImage = target_image

(* C6: in every invocation the start notification precedes the switch
   invocation, and a success or failure notification is sent only after
   the switch has returned. *)
C6_EventOrder ==
    \A i \in 1..Len(events) :
        /\ events[i].ev = "switch" => \E j \in 1..(i - 1) : events[j].ev = "start"
        /\ events[i].ev = "switch_return" => i > 1 /\ events[i - 1].ev = "switch"
        /\ events[i].ev \in {"success", "failure"} =>
              \E j \in 1..(i - 1) : events[j].ev = "switch_return"

(* a failed switch: start, switch, its return, failure notification *)
C6_Witness ==
    /\ pc = "Failed"
    /\ Len(events) = 4
    /\ events[1].ev = "start"
    /\ events[2].ev = "switch"
    /\ events[4].ev = "failure"

(* C7: perform_migration never propagates an exception to its caller,
   whichever step faults. *)
C7_NeverPropagates == pc # "Raised" /\ result # "raised"

(* C8: target resolution never raises; every substitution failure of a
   backslash template makes it return to_image verbatim. *)
C8_ResolutionNeverRaises ==
    pc = "CurrentImageResolved" =>
        LET r == _resolve_target_image(migration, current_image)
            failed == /\ Contains(migration.to_image, "\\")
                      /\ Len(migration.from_pattern) > 0
                      /\ re_sub(migration.from_pattern, migration.to_image,
                                current_image).status # "ok"
        IN /\ ~r.raised
           /\ failed => r.target = migration.to_image

(* C9: a to_image without a backslash is returned unchanged, whatever the
   current image and whether or not from_pattern matches it. *)
C9_LiteralTargetUnchanged ==
    (Resolved /\ ~Contains(migration.to_image, "\\")) =>
        target_image = migration.to_image

(* a literal target of a rule whose pattern matches the current image *)
C9_Witness ==
    /\ Resolved
    /\ ~Contains(migration.to_image, "\\")
    /\ Len(migration.from_pattern) > 0
    /\ PatternMatches(migration, current_image)
    /\ target_image = migration.to_image
    /\ target_image # <<>>

(* to_image with every back-reference replaced by the text its group
   captured, the empty string for a group that did not take part *)
RECURSIVE ReplaceRefs(_, _)
ReplaceRefs(t, caps) ==
    IF Len(t) = 0 THEN <<>>
    ELSE IF /\ t[1] = "\\" /\ Len(t) >= 2 /\ t[2] \in Digits \ {"0"}
            /\ DigitVal(t[2]) \in DOMAIN caps
         THEN (IF caps[DigitVal(t[2])].set THEN caps[DigitVal(t[2])].txt ELSE <<>>)
              \o ReplaceRefs(SubSeq(t, 3, Len(t)), caps)
         ELSE <<t[1]>> \o ReplaceRefs(Tail(t), caps)

MatchesWholeImage(r, image) ==
    LET m == re_match(r.from_pattern, image) IN m.found /\ m.e = Len(image)

(* every backslash of t is followed by one digit k, 1 <= k <= groups, that
   no further digit follows *)
OnlyBackReferences(t, groups) ==
    \A i \in 1..Len(t) :
        t[i] = "\\" =>
            /\ i < Len(t)
            /\ t[i + 1] \in Digits \ {"0"}
            /\ DigitVal(t[i + 1]) <= groups
            /\ i + 2 <= Len(t) => t[i + 2] \notin Digits

(* the pattern has no match, not even an empty one, at the end of image *)
NoMatchAtEnd(r, image) ==
    Len(MatchSeq(r.from_pattern, image, Len(image), NoCaptures(r.from_pattern))) = 0

(* C10 as stated, on the templates it speaks of (every backslash of
   to_image introduces a back-reference to a group of from_pattern): when
   from_pattern matches the whole current image, the resolved target is
   to_image with each back-reference replaced by the text captured by its
   group. *)
C10_BackReferencesReplaced ==
    ( /\ Resolved
      /\ Contains(migration.to_image, "\\")
      /\ OnlyBackReferences(migration.to_image, GroupCount(migration.from_pattern))
      /\ MatchesWholeImage(migration, current_image) )
    => target_image = ReplaceRefs(migration.to_image,
                                  re_match(migration.from_pattern, current_image).caps)

(* C10 amended: the same, provided from_pattern has no further match, not
   even an empty one, at the end of the image; re.sub replaces every
   match, so such a pattern gets the template expanded a second time. *)
C10_BackReferencesReplacedOnce ==
    ( /\ Resolved
      /\ Contains(migration.to_image, "\\")
      /\ OnlyBackReferences(migration.to_image, GroupCount(migration.from_pattern))
      /\ MatchesWholeImage(migration, current_image)
      /\ NoMatchAtEnd(migration, current_image) )
    => target_image = ReplaceRefs(migration.to_image,
                                  re_match(migration.from_pattern, current_image).caps)

(* the template TplRef12 over the pattern PatFamily, on an image where the
   optional group did not take part *)
C10_Witness ==
    /\ Resolved
    /\ migration.to_image = TplRef12
    /\ migration.from_pattern = PatFamily
    /\ MatchesWholeImage(migration, current_image)
    /\ ~re_match(migration.from_pattern, current_image).caps[1].set
    /\ re_match(migration.from_pattern, current_image).caps[2].txt # <<>>
    /\ target_image = <<"x", ":">> \o re_match(migration.from_pattern, current_image).caps[2].txt

-----------------------------------------------------------------------------
(* the current-image query of lines 140-141 returned no image *)
CurrentImageUnavailable == pc # "Idle" /\ current_image = <<>>

(* C11: when the current-image query returns no image, perform_migration
   returns False at once: nothing is resolved, no notification is sent, no
   record is written and rebase_to_image is never invoked. *)
C11_NoImageFailsAtOnce ==
    CurrentImageUnavailable =>
        /\ pc = "Failed"
        /\ result = "false"
        /\ ~SwitchInvoked
        /\ events = <<>>
        /\ records = <<>>
        /\ target_image = <<>>

(* the query failed although the rule would have led to a switch *)
C11_Witness ==
    /\ CurrentImageUnavailable
    /\ result = "false"
    /\ re_match(migration.from_pattern, bootedImage).found
    /\ ~_resolve_target_image(migration, bootedImage).raised
    /\ _resolve_target_image(migration, bootedImage).target # bootedImage
    /\ validate_image_reference(_resolve_target_image(migration, bootedImage).target)


-----------------------------------------------------------------------------
(* BootcManager.validate_image_reference on its own, applied to every
   reference of up to MaxRefLen characters *)

RefChars == {"a", " ", "/", ":"}
References == StringsUpTo(RefChars, MaxRefLen)

(* bootc.py 199-217 as called from migrator.py 154 and 293 *)
call_validate_image_reference ==
    /\ pc = "Idle"
    /\ result' = (IF validate_image_reference(target_image) THEN "true" ELSE "false")
    /\ pc' = "Validated"
    /\ UNCHANGED <<args, exit_code, output, undelivered,
                   files, loaded, pending, include_future,
                   config, now, bootedImage, migration, current_image, target_image,
                   success, events, records, found, called_at>>

InitValidate ==
    /\ target_image \in References
    /\ config = <<>>
    /\ now = 0
    /\ bootedImage = <<>>
    /\ pc = "Idle"
    /\ migration = NoMigration
    /\ current_image = <<>>
    /\ success = FALSE
    /\ events = <<>>
    /\ records = <<>>
    /\ result = "none"
    /\ found = 0
    /\ called_at = -1
    /\ files = NoFiles
    /\ loaded = NotLoaded
    /\ pending = <<>>
    /\ include_future = FALSE
    /\ undelivered = {}
    /\ args = NoArgs
    /\ exit_code = NotExited
    /\ output = NoOutput

NextValidate == call_validate_image_reference

SpecValidate == InitValidate /\ [][NextValidate]_vars

(* a reference with at least one character that strip() keeps *)
HasVisibleCharacter(image) == \E i \in 1..Len(image) : image[i] \notin Whitespace
HasSeparator(image) == Contains(image, "/") \/ Contains(image, ":")

(* C12 as stated: validate_image_reference rejects the empty reference and
   accepts every non-empty string, with or without a slash or a colon. *)
C12_AcceptsEveryNonEmpty ==
    pc = "Validated" => (result = "true" <=> target_image # <<>>)

(* C12 as the code has it: validate_image_reference rejects the empty
   reference and every reference made of whitespace only, and accepts every
   reference with at least one non-whitespace character, with or without a
   slash or a colon. *)
C12_AcceptsEveryNonBlank ==
    pc = "Validated" =>
        /\ result \in {"true", "false"}
        /\ result = "true" <=> HasVisibleCharacter(target_image)
        /\ HasSeparator(target_image) => result = "true"

(* a non-empty reference of blanks has been rejected *)
C12_Witness ==
    /\ pc = "Validated"
    /\ target_image # <<>>
    /\ ~HasVisibleCharacter(target_image)
    /\ result = "false"

-----------------------------------------------------------------------------
(* ConfigManager (config.py).  A configuration and a rule are the dicts
   yaml.safe_load returns, modelled as functions whose DOMAIN is the set of
   keys present; names and reasons are strings, pattern, image and date
   texts are character sequences. *)

(* re.compile(from_pattern) of line 146 on pattern texts made of literal
   characters, ".", "*", "(" and ")": sre_parse raises re.error for an
   unbalanced ")", for a "(" left open at the end, and for a "*" with
   nothing to repeat or directly after another "*" *)
RECURSIVE sre_parse(_, _, _, _)
sre_parse(text, i, depth, repeatable) ==
    IF i > Len(text) THEN (IF depth = 0 THEN "ok" ELSE "re.error")
    ELSE CASE text[i] = "(" -> sre_parse(text, i + 1, depth + 1, FALSE)
           [] text[i] = ")" -> IF depth = 0 THEN "re.error"
                               ELSE sre_parse(text, i + 1, depth - 1, TRUE)
           [] text[i] = "*" -> IF repeatable THEN sre_parse(text, i + 1, depth, FALSE)
                               ELSE "re.error"
           [] OTHER -> sre_parse(text, i + 1, depth, TRUE)
re_compile(text) == sre_parse(text, 1, 0, FALSE)

(* datetime.strptime(text, "%Y-%m-%d") of line 155: _strptime's regex for
   the format is four digits, "-", a month token, "-", a day token, and it
   has to use up the whole text; the date then has to exist *)
AllDigits(s) == \A i \in 1..Len(s) : s[i] \in Digits
IsMonthToken(s) ==
    \/ Len(s) = 2 /\ s[1] = "1" /\ s[2] \in {"0", "1", "2"}
    \/ Len(s) = 2 /\ s[1] = "0" /\ s[2] \in Digits \ {"0"}
    \/ Len(s) = 1 /\ s[1] \in Digits \ {"0"}
IsDayToken(s) ==
    \/ Len(s) = 2 /\ s[1] = "3" /\ s[2] \in {"0", "1"}
    \/ Len(s) = 2 /\ s[1] \in {"1", "2"} /\ s[2] \in Digits
    \/ Len(s) = 2 /\ s[1] \in {"0", " "} /\ s[2] \in Digits \ {"0"}
    \/ Len(s) = 1 /\ s[1] \in Digits \ {"0"}
TokenValue(s) == DecimalValue(IF s[1] = " " THEN Tail(s) ELSE s)
IsLeap(y) == y % 4 = 0 /\ (y % 100 # 0 \/ y % 400 = 0)
DaysInMonth(y, m) ==
    IF m = 2 THEN (IF IsLeap(y) THEN 29 ELSE 28)
    ELSE IF m \in {4, 6, 9, 11} THEN 30 ELSE 31
strptime_ymd(text) ==
    LET seconds == {q \in 7..(Len(text) - 1) :
                       /\ text[q] = "-"
                       /\ IsMonthToken(SubSeq(text, 6, q - 1))
                       /\ IsDayToken(SubSeq(text, q + 1, Len(text)))}
    IN IF /\ Len(text) >= 8
          /\ AllDigits(SubSeq(text, 1, 4))
          /\ text[5] = "-"
          /\ seconds # {}
       THEN LET q == CHOOSE q \in seconds : TRUE
                y == DecimalValue(SubSeq(text, 1, 4))
                m == TokenValue(SubSeq(text, 6, q - 1))
                d == TokenValue(SubSeq(text, q + 1, Len(text)))
            IN IF y >= 1 /\ d <= DaysInMonth(y, m) THEN "ok" ELSE "ValueError"
       ELSE "ValueError"

(* dicts *)
EmptyDict == << >>
WithoutKey(d, key) == [k \in DOMAIN d \ {key} |-> d[k]]
Migrations(list) == [migrations |-> list]

(* files: what _load_yaml_file finds at a path *)
MissingFile == [kind |-> "missing", content |-> EmptyDict]
UnparsableFile == [kind |-> "unparsable", content |-> EmptyDict]   \* yaml.YAMLError, unreadable
YamlFile(content) == [kind |-> "yaml", content |-> content]         \* an empty file loads as {}

(* file names, compared as Python compares str: by code point.  The
   characters of the names used, in ascending code-point order *)
NameCharOrder == <<".", "0", "1", "5", "9", "c", "f", "n", "o", "t", "x">>
Ord(c) == CHOOSE n \in 1..Len(NameCharOrder) : NameCharOrder[n] = c
RECURSIVE StrLess(_, _)
StrLess(a, b) ==
    IF Len(b) = 0 THEN FALSE
    ELSE IF Len(a) = 0 THEN TRUE
    ELSE IF Head(a) = Head(b) THEN StrLess(Tail(a), Tail(b))
    ELSE Ord(Head(a)) < Ord(Head(b))

(* config_dir.glob("*.conf"), line 52 *)
EndsWith(s, suffix) ==
    /\ Len(s) >= Len(suffix)
    /\ SubSeq(s, Len(s) - Len(suffix) + 1, Len(s)) = suffix
glob_conf(entries) == {e \in entries : EndsWith(e.name, <<".", "c", "o", "n", "f">>)}

(* sorted(...), line 52 *)
RECURSIVE sorted(_)
sorted(entries) ==
    IF entries = {} THEN << >>
    ELSE LET first == CHOOSE e \in entries :
                          \A o \in entries \ {e} : StrLess(e.name, o.name)
         IN <<first>> \o sorted(entries \ {first})

(* _merge_configs(base_config, drop_ins), lines 89-107:
   merged.setdefault("migrations", []).extend(drop_in["migrations"]) *)
RECURSIVE _merge_configs(_, _)
_merge_configs(merged, drop_ins) ==
    IF drop_ins = << >> THEN merged
    ELSE LET drop_in == Head(drop_ins)
             list == IF "migrations" \in DOMAIN merged THEN merged["migrations"]
                     ELSE << >>
             extended == [k \in DOMAIN merged \cup {"migrations"} |->
                             IF k = "migrations" THEN list \o drop_in["migrations"]
                             ELSE merged[k]]
         IN _merge_configs(IF "migrations" \in DOMAIN drop_in THEN extended ELSE merged,
                           Tail(drop_ins))

(* _validate_migration(migration, index), lines 128-161: "ok" or the
   exception raised *)
required_fields == <<"name", "from_pattern", "to_image", "reason">>

(* variant: the effective_date of lines 152-159 is not looked at *)
_validate_migration_no_date(m) ==
    IF \E k \in 1..Len(required_fields) : required_fields[k] \notin DOMAIN m
    THEN "ValueError"
    ELSE IF re_compile(m["from_pattern"]) # "ok" THEN "ValueError"
    ELSE "ok"

(* variant: reason is not among the required fields *)
_validate_migration_reason_optional(m) ==
    IF \E k \in 1..3 : required_fields[k] \notin DOMAIN m
    THEN "ValueError"
    ELSE IF re_compile(m["from_pattern"]) # "ok" THEN "ValueError"
    ELSE IF "effective_date" \in DOMAIN m /\ strptime_ymd(m["effective_date"]) # "ok"
    THEN "ValueError"
    ELSE "ok"

_validate_migration(m) ==
    IF \E k \in 1..Len(required_fields) : required_fields[k] \notin DOMAIN m
    THEN "ValueError"
    ELSE IF re_compile(m["from_pattern"]) # "ok" THEN "ValueError"
    ELSE IF "effective_date" \in DOMAIN m /\ strptime_ymd(m["effective_date"]) # "ok"
    THEN "ValueError"
    ELSE "ok"

(* _validate_config(config), lines 109-126 *)
_validate_config(cfg) ==
    IF "migrations" \notin DOMAIN cfg THEN "ValueError"
    ELSE IF \E i \in 1..Len(cfg["migrations"]) :
                _validate_migration(cfg["migrations"][i]) # "ok"
    THEN "ValueError"
    ELSE "ok"

(* load_config(), lines 30-63: the returned configuration or the
   exception raised *)
Raises(exc) == [status |-> exc, config |-> EmptyDict]
Returns(cfg) == [status |-> "ok", config |-> cfg]
DropInFiles(f) == sorted(glob_conf(f.dir.entries))

(* variant: the drop-ins are merged in the order the directory lists them,
   here the reverse of the sorted order *)
RECURSIVE Reverse(_)
Reverse(s) == IF s = << >> THEN << >> ELSE Append(Reverse(Tail(s)), Head(s))
load_config_unsorted(f) ==
    IF f.main.kind = "missing" THEN Raises("FileNotFoundError")
    ELSE IF f.main.kind = "unparsable" THEN Raises("ValueError")
    ELSE LET drop_in_files == Reverse(DropInFiles(f))
             drop_ins == [i \in 1..Len(drop_in_files) |-> drop_in_files[i].file.content]
             cfg == IF f.dir.exists THEN _merge_configs(f.main.content, drop_ins)
                    ELSE f.main.content
         IN IF /\ f.dir.exists
               /\ \E i \in 1..Len(drop_in_files) : drop_in_files[i].file.kind = "unparsable"
            THEN Raises("ValueError")
            ELSE IF _validate_config(cfg) # "ok" THEN Raises("ValueError")
            ELSE Returns(cfg)

load_config(f) ==
    IF f.main.kind = "missing" THEN Raises("FileNotFoundError")
    ELSE IF f.main.kind = "unparsable" THEN Raises("ValueError")
    ELSE LET drop_in_files == DropInFiles(f)
             drop_ins == [i \in 1..Len(drop_in_files) |-> drop_in_files[i].file.content]
             cfg == IF f.dir.exists THEN _merge_configs(f.main.content, drop_ins)
                    ELSE f.main.content
         IN IF /\ f.dir.exists
               /\ \E i \in 1..Len(drop_in_files) : drop_in_files[i].file.kind = "unparsable"
            THEN Raises("ValueError")
            ELSE IF _validate_config(cfg) # "ok" THEN Raises("ValueError")
            ELSE Returns(cfg)

-----------------------------------------------------------------------------
(* The loader on its own: load_config() over persisted configurations *)

(* rules as they appear in a file *)
RuleOk ==
    [name |-> "m1", from_pattern |-> <<"a">>, to_image |-> <<"b">>, reason |-> "eol"]
RuleDated ==
    [name |-> "m2", from_pattern |-> <<"(", ".", "*", ")">>, to_image |-> <<"b">>,
     reason |-> "eol",
     effective_date |-> <<"2", "0", "2", "4", "-", "0", "1", "-", "0", "2">>]
RuleEmptyName == [RuleOk EXCEPT !["name"] = ""]
RuleEmptyReason == [RuleOk EXCEPT !["reason"] = ""]
RuleBadPattern == [RuleOk EXCEPT !["from_pattern"] = <<"(", "a">>]
RuleBadDateText ==
    [RuleDated EXCEPT
        !["effective_date"] = <<"2", "0", "2", "4", "-", "1", "3", "-", "0", "1">>]
RuleEmptyDateText == [RuleDated EXCEPT !["effective_date"] = << >>]
RulesLackingAField ==
    {WithoutKey(RuleOk, required_fields[k]) : k \in 1..Len(required_fields)}
LoadRules ==
    {RuleOk, RuleDated, RuleEmptyName, RuleEmptyReason, RuleBadPattern,
     RuleBadDateText, RuleEmptyDateText} \cup RulesLackingAField

RECURSIVE ListsOf(_, _)
ListsOf(rules, n) ==
    IF n = 0 THEN {<< >>}
    ELSE LET shorter == ListsOf(rules, n - 1)
         IN shorter \cup {Append(l, r) : l \in shorter, r \in rules}

(* file names in the drop-in directory: as strings "10.conf" sorts before
   "9.conf", and "5.txt" is not matched by *.conf *)
NameTen == <<"1", "0", ".", "c", "o", "n", "f">>
NameNine == <<"9", ".", "c", "o", "n", "f">>
NameText == <<"5", ".", "t", "x", "t">>

Directory(entries) == [exists |-> TRUE, entries |-> entries]
MissingDirectory == [exists |-> FALSE, entries |-> {}]
Entry(name, file) == [name |-> name, file |-> file]

(* configurations that differ in the shape of the lists: valid rules only *)
MergeContents ==
    {EmptyDict} \cup {Migrations(l) : l \in ListsOf({RuleOk, RuleDated}, MaxRules)}
MergeDirectories ==
    {MissingDirectory} \cup
    {Directory(ten \cup nine \cup text) :
        ten \in {{}} \cup {{Entry(NameTen, YamlFile(c))} : c \in MergeContents},
        nine \in {{}} \cup {{Entry(NameNine, YamlFile(c))} : c \in MergeContents},
        text \in {{}, {Entry(NameText, YamlFile(Migrations(<<RuleOk>>)))}}}
MergeInputs ==
    {[main |-> YamlFile(c), dir |-> d] : c \in MergeContents, d \in MergeDirectories}

(* configurations that differ in the rules: one rule of any kind, alone or
   next to a valid one, in the main file or in a drop-in *)
ValidationLists ==
    {<< >>} \cup {<<r>> : r \in LoadRules}
            \cup {<<RuleOk, r>> : r \in LoadRules} \cup {<<r, RuleOk>> : r \in LoadRules}
ValidationMains ==
    {MissingFile, UnparsableFile, YamlFile(EmptyDict)}
        \cup {YamlFile(Migrations(l)) : l \in ValidationLists}
ValidationDirectories ==
    {MissingDirectory, Directory({})}
        \cup {Directory({Entry(NameNine, f)}) :
                f \in {UnparsableFile, YamlFile(EmptyDict)}
                        \cup {YamlFile(Migrations(l)) : l \in ListsOf(LoadRules, 1)}}
ValidationInputs ==
    {[main |-> m, dir |-> d] : m \in ValidationMains, d \in ValidationDirectories}

(* main.py 93-94: config_manager.load_config() *)
call_load_config ==
    /\ pc = "Idle"
    /\ loaded' = load_config(files)
    /\ pc' = "Loaded"
    /\ UNCHANGED <<args, exit_code, output, undelivered,
                   files, pending, include_future, config, now, bootedImage,
                   migration, current_image, target_image, success, events,
                   records, result, found, called_at>>

InitLoad ==
    /\ files \in MergeInputs \cup ValidationInputs
    /\ loaded = NotLoaded
    /\ pending = << >>
    /\ include_future = FALSE
    /\ undelivered = {}
    /\ args = NoArgs
    /\ exit_code = NotExited
    /\ output = NoOutput
    /\ config = << >>
    /\ now = 0
    /\ bootedImage = << >>
    /\ pc = "Idle"
    /\ migration = NoMigration
    /\ current_image = << >>
    /\ target_image = << >>
    /\ success = FALSE
    /\ events = << >>
    /\ records = << >>
    /\ result = "none"
    /\ found = 0
    /\ called_at = -1

NextLoad == call_load_config

SpecLoad == InitLoad /\ [][NextLoad]_vars

(* the rule lists load_config was given: the main file's and, when the
   directory exists, those of the drop-ins it reads *)
HasMigrations(file) == file.kind = "yaml" /\ "migrations" \in DOMAIN file.content
BaseRules == IF HasMigrations(files.main) THEN files.main.content["migrations"] ELSE << >>
ReadDropIns == IF files.dir.exists THEN DropInFiles(files) ELSE << >>
LoadSucceeded == pc = "Loaded" /\ loaded.status = "ok"
LoadedRules == loaded.config["migrations"]

(* the rules of the drop-in of the given name, as load_config reads them *)
RulesOf(name) ==
    LET named == {e \in files.dir.entries : e.name = name}
    IN IF files.dir.exists /\ named # {} /\ HasMigrations((CHOOSE e \in named : TRUE).file)
       THEN (CHOOSE e \in named : TRUE).file.content["migrations"]
       ELSE << >>
(* every rule load_config was given, in the order of the spec's merge:
   base first, then "10.conf", then "9.conf" *)
GivenRules == BaseRules \o RulesOf(NameTen) \o RulesOf(NameNine)
LacksAField(r) == \E k \in 1..Len(required_fields) : required_fields[k] \notin DOMAIN r

(* C13: whenever a rule of the main file or of a drop-in lacks one of the
   fields name, from_pattern, to_image, reason, load_config raises
   ValueError, whatever the rule's other fields and the other rules are. *)
SomeRuleLacksAField == \E i \in 1..Len(GivenRules) : LacksAField(GivenRules[i])
C13_MissingFieldFails ==
    (pc = "Loaded" /\ files.main.kind = "yaml" /\ SomeRuleLacksAField)
        => loaded.status = "ValueError"

(* the only defect of the configuration is one rule without a reason *)
C13_Witness ==
    /\ pc = "Loaded"
    /\ files.main = YamlFile(Migrations(<<RuleOk, WithoutKey(RuleOk, "reason")>>))
    /\ ~files.dir.exists
    /\ loaded.status = "ValueError"

(* C14: every rule of a configuration that load_config returned has a
   non-empty name and a non-empty reason. *)
C14_NameAndReasonNonEmpty ==
    LoadSucceeded =>
        \A i \in 1..Len(LoadedRules) :
            LoadedRules[i]["name"] # "" /\ LoadedRules[i]["reason"] # ""

(* C15: load_config returns only if every rule it was given, in the main
   file and in every drop-in, has a from_pattern that compiles and, when it
   has an effective_date, one that strptime parses; and then every given
   rule is in the returned list. *)
C15_EveryRuleValidated ==
    LoadSucceeded =>
        /\ \A i \in 1..Len(GivenRules) :
              /\ ~LacksAField(GivenRules[i])
              /\ re_compile(GivenRules[i]["from_pattern"]) = "ok"
              /\ "effective_date" \in DOMAIN GivenRules[i]
                    => strptime_ymd(GivenRules[i]["effective_date"]) = "ok"
        /\ \A i \in 1..Len(GivenRules) :
              \E j \in 1..Len(LoadedRules) : LoadedRules[j] = GivenRules[i]

(* a load that succeeded on a dated rule supplied by a drop-in *)
C15_Witness ==
    /\ LoadSucceeded
    /\ BaseRules # << >>
    /\ \E i \in 1..Len(RulesOf(NameNine)) :
          "effective_date" \in DOMAIN RulesOf(NameNine)[i]

(* C16: load_config raises ValueError whenever the main file has no
   migrations key, whatever the drop-ins contain, and returns when the main
   file has the key with an empty list and the drop-ins are valid. *)
BaseLacksKey == files.main.kind = "yaml" /\ "migrations" \notin DOMAIN files.main.content
BaseHasEmptyList == HasMigrations(files.main) /\ BaseRules = << >>
DropInsAreValid ==
    /\ \A i \in 1..Len(ReadDropIns) : ReadDropIns[i].file.kind = "yaml"
    /\ \A i \in 1..Len(GivenRules) : _validate_migration(GivenRules[i]) = "ok"
C16_BaseKeyRequired ==
    /\ (pc = "Loaded" /\ BaseLacksKey) => loaded.status = "ValueError"
    /\ (pc = "Loaded" /\ BaseHasEmptyList /\ DropInsAreValid) => loaded.status = "ok"

(* C17: the returned rule list is the main file's rules in their order,
   then the rules of "10.conf", then those of "9.conf" (sorted file names),
   each list in its own order; nothing is removed, merged or replaced. *)
C17_MergeIsConcatenation ==
    LoadSucceeded =>
        /\ LoadedRules = BaseRules \o RulesOf(NameTen) \o RulesOf(NameNine)
        /\ Len(LoadedRules) = Len(BaseRules) + Len(RulesOf(NameTen)) + Len(RulesOf(NameNine))
        /\ \A i \in 1..Len(BaseRules) : LoadedRules[i] = BaseRules[i]

(* two base rules and two drop-ins with different lists, one rule present
   in the main file and in a drop-in *)
C17_Witness ==
    /\ LoadSucceeded
    /\ Len(BaseRules) = 2
    /\ Len(RulesOf(NameNine)) = 2
    /\ RulesOf(NameTen) # << >>
    /\ RulesOf(NameTen) # RulesOf(NameNine)
    /\ RulesOf(NameNine)[1] # RulesOf(NameNine)[2]
    /\ \E i \in 1..2 : BaseRules[i] = RulesOf(NameNine)[1]
    /\ Len(LoadedRules) > 4

-----------------------------------------------------------------------------
(* Properties of the diagnostic query (SpecFind) *)

Queried == pc = "Queried"
MatchingAndDue(i) ==
    /\ PatternMatches(config[i], current_image)
    /\ include_future \/ ~NotYetEffective(config[i], called_at)
(* the indices from i on, in list order, of the rules matching and due *)
RECURSIVE MatchingAndDueFrom(_)
MatchingAndDueFrom(i) ==
    IF i > Len(config) THEN << >>
    ELSE (IF MatchingAndDue(i) THEN <<i>> ELSE << >>) \o MatchingAndDueFrom(i + 1)

(* C18: get_pending_migrations returns, in list order, every rule whose
   from_pattern matches the image; with include_future true none of them is
   omitted, with include_future false exactly those not yet effective are. *)
C18_AllMatchesButFuture ==
    Queried => pending = MatchingAndDueFrom(1)

(* C19: find_migration returns the first element of
   get_pending_migrations(image, include_future=False) for the same rule
   list, image and instant, and None exactly when that list is empty. *)
C19_FirstPendingIsFound ==
    (Queried /\ ~include_future) =>
        found = (IF pending = << >> THEN 0 ELSE pending[1])

-----------------------------------------------------------------------------
(* Properties of one perform_migration invocation as a state machine (Spec) *)

(* the spec's state of a position of the call: the start notification, the
   rebase_to_image call and its return all belong to Switching *)
Phase(p) == IF p \in {"Starting", "Started", "Switching", "Switched"} THEN "Switching" ELSE p
TerminalPhases == {"NoOpSuccess", "Success", "Failed"}
(* positions from which perform_migration still has a statement to run *)
Running ==
    pc \in {"Idle", "CurrentImageResolved", "TargetResolved", "Starting", "Started",
            "Switching", "Switched"}
(* the arrows of the machine, with the failures that end the invocation
   before a switch: no current image, target rejected by validation *)
MachineSteps ==
    {<<"Idle", "CurrentImageResolved">>, <<"Idle", "Failed">>,
     <<"CurrentImageResolved", "TargetResolved">>,
     <<"TargetResolved", "NoOpSuccess">>, <<"TargetResolved", "Failed">>,
     <<"TargetResolved", "Switching">>,
     <<"Switching", "Success">>, <<"Switching", "Failed">>}

(* C20: an invocation moves along Idle, CurrentImageResolved,
   TargetResolved, then NoOpSuccess or Switching followed by Success or
   Failed; when it has ended it is in NoOpSuccess, Success or Failed; and
   rebase_to_image is called at most once in it. *)
C20_StateMachine ==
    /\ [][Phase(pc') # Phase(pc) => <<Phase(pc), Phase(pc')>> \in MachineSteps]_vars
    /\ [](~Running => pc \in TerminalPhases)
    /\ [](Cardinality(EventsOf("switch")) <= 1)

-----------------------------------------------------------------------------
(* Failure reporting and notification delivery of one perform_migration
   invocation (Spec) *)

(* C21: whenever perform_migration returns false (current image unavailable,
   target rejected by validation, switch failed, unexpected fault), a failure
   notification with a reason string has been sent during that invocation. *)
C21_FailureAlwaysNotified ==
    (Returned /\ result = "false") =>
        \E i \in EventsOf("failure") : events[i].detail # ""

(* every channel failed to deliver the start and the success notification *)
AllUndelivered(notification) == DeliveryFailures(notification, Channels) \subseteq undelivered

(* C22: a delivery failure of any channel during a start, success or failure
   notification neither prevents rebase_to_image from being invoked nor
   changes what perform_migration returns; a successful switch still yields
   true. *)
C22_FireAndForget ==
    /\ (EventsOf("start") # {} /\ ~Running) => SwitchInvoked
    /\ (Returned /\ SwitchReported(TRUE)) => result = "true"
    /\ (Returned /\ SwitchReported(FALSE)) => result = "false"

(* a switch that succeeded while no channel delivered anything *)
C22_Witness ==
    /\ pc = "Success"
    /\ result = "true"
    /\ SwitchReported(TRUE)
    /\ AllUndelivered("start")
    /\ AllUndelivered("success")

(* C27: perform_migration returns true only if the current image it queried
   already equals the resolved target, or rebase_to_image was invoked with
   exactly the resolved target, after that target passed validation, and
   reported success; never after a failed switch, a rejected target or an
   unavailable current image. *)
C27_TrueOnlyWhenThere ==
    result = "true" =>
        /\ current_image # << >>
        /\ validate_image_reference(target_image)
        /\ target_image = _resolve_target_image(migration, current_image).target
        /\ ~SwitchReported(FALSE)
        /\ \/ /\ pc = "NoOpSuccess"
              /\ current_image = target_image
              /\ ~SwitchInvoked
           \/ /\ pc = "Success"
              /\ \A i \in EventsOf("switch") : events[i] = SwitchEvent(target_image)
              /\ SwitchInvoked
              /\ SwitchReported(TRUE)

(* true after a switch to a target expanded from a back-reference template *)
C27_Witness ==
    /\ result = "true"
    /\ pc = "Success"
    /\ Contains(migration.to_image, "\\")
    /\ target_image # migration.to_image
    /\ SwitchReported(TRUE)

(* re.search: the pattern matches somewhere in the image *)
Occurs(pattern, image) == Search(pattern, image, 0, 0, FALSE).found
(* the rule is resolved by substitution (migrator.py 107) and its template
   is one re.sub expands *)
ExpandsTemplate(m, image) ==
    /\ Contains(m.to_image, "\\")
    /\ Len(m.from_pattern) > 0
    /\ re_sub(m.from_pattern, m.to_image, image).status = "ok"

(* C28, as stated: rebase_to_image is invoked only when the rule's
   from_pattern matches the current image perform_migration queried. *)
C28_SwitchOnlyOnMatch ==
    SwitchInvoked => re_match(migration.from_pattern, current_image).found

(* C28, amended: rebase_to_image is invoked only with a validated resolved
   target that differs from the queried current image; the pattern is not
   matched again, but a template rule whose pattern occurs nowhere in the
   current image resolves to that image and never causes a switch. *)
C28_SwitchOnlyOnNewTarget ==
    SwitchInvoked =>
        /\ target_image = _resolve_target_image(migration, current_image).target
        /\ validate_image_reference(target_image)
        /\ target_image # current_image
        /\ ExpandsTemplate(migration, current_image) =>
               Occurs(migration.from_pattern, current_image)

(* a literal-target rule switched although its pattern does not match *)
C28_Witness ==
    /\ SwitchInvoked
    /\ ~Contains(migration.to_image, "\\")
    /\ ~re_match(migration.from_pattern, current_image).found

-----------------------------------------------------------------------------
(* main(): one run of the program, from the parsed command line to its exit
   code.  The rules main works on are those load_config returned; the
   matcher and the engine take them compiled. *)

(* re.compile of a pattern text re_compile accepts, over literal characters,
   ".*" and groups: the items re.match and re.sub run on *)
RECURSIVE sre_compile(_, _, _)
sre_compile(text, i, g) ==
    IF i > Len(text) \/ text[i] = ")" THEN [items |-> << >>, i |-> i, g |-> g]
    ELSE IF text[i] = "("
    THEN LET inner == sre_compile(text, i + 1, g + 1)
             rest == sre_compile(text, inner.i + 1, inner.g)
         IN [items |-> << Grp(g + 1, FALSE, inner.items) >> \o rest.items,
             i |-> rest.i, g |-> rest.g]
    ELSE IF text[i] = "." /\ i < Len(text) /\ text[i + 1] = "*"
    THEN LET rest == sre_compile(text, i + 2, g)
         IN [items |-> << DotStar >> \o rest.items, i |-> rest.i, g |-> rest.g]
    ELSE LET rest == sre_compile(text, i + 1, g)
         IN [items |-> << Lit(text[i]) >> \o rest.items, i |-> rest.i, g |-> rest.g]

(* a rule of the loaded configuration as _is_migration_applicable and
   _resolve_target_image read it.  The clock of the model starts at
   2024-01-01 00:00, day 0, and the dates are days of January 2024. *)
Compiled(m) ==
    [name |-> m["name"],
     from_pattern |-> sre_compile(m["from_pattern"], 1, 0).items,
     to_image |-> m["to_image"],
     reason |-> m["reason"],
     effective_date |->
        IF "effective_date" \notin DOMAIN m \/ m["effective_date"] = << >> THEN NoDate
        ELSE IF strptime_ymd(m["effective_date"]) = "ok"
        THEN OnDay(DecimalValue(SubSeq(m["effective_date"], 9, 10)) - 1)
        ELSE BadDate]

(* what main prints or logs before it returns: the message, and the 'To:'
   line of a report *)
Said(message, to) == [message |-> message, to |-> to]

(* lines 93-99 and 153-157: the configuration is loaded and handed to the
   migrator; an exception of load_config ends the run with 1 *)
main_load_config ==
    /\ pc = "MainStart"
    /\ loaded' = load_config(files)
    /\ IF loaded'.status = "ok"
       THEN /\ config' = [i \in 1..Len(loaded'.config["migrations"]) |->
                          Compiled(loaded'.config["migrations"][i])]
            /\ pc' = "MainConfigured"
            /\ UNCHANGED <<exit_code, output>>
       ELSE /\ config' = config
            /\ pc' = "Exited"
            /\ exit_code' = 1
            /\ output' = Said("Unexpected error", << >>)
    /\ UNCHANGED <<args, undelivered, files, pending, include_future, now,
                   bootedImage, migration, current_image, target_image, success,
                   events, records, result, found, called_at>>

(* lines 102-109 *)
main_get_current_image ==
    /\ pc = "MainConfigured"
    /\ \E available \in BOOLEAN :
         IF available
         THEN /\ current_image' = bootedImage
              /\ pc' = "MainImageKnown"
              /\ UNCHANGED <<exit_code, output>>
         ELSE /\ current_image' = << >>
              /\ pc' = "Exited"
              /\ exit_code' = 1
              /\ output' = Said("Could not determine current bootc image", << >>)
    /\ UNCHANGED <<args, undelivered, files, loaded, pending, include_future,
                   config, now, bootedImage, migration, target_image, success,
                   events, records, result, found, called_at>>

(* line 112 *)
main_find_migration ==
    /\ pc = "MainImageKnown"
    /\ found' = find_migration(config, current_image, now)
    /\ called_at' = now
    /\ pc' = "MainMatched"
    /\ UNCHANGED <<args, exit_code, output, undelivered, files, loaded, pending,
                   include_future, config, now, bootedImage, migration,
                   current_image, target_image, success, events, records, result>>

(* lines 114-123: --check prints the rule found, or that there is none *)
main_check ==
    /\ pc = "MainMatched"
    /\ args.check
    /\ output' = IF found # 0 THEN Said("Migration available", config[found].to_image)
                 ELSE Said("No migration needed", << >>)
    /\ exit_code' = 0
    /\ pc' = "Exited"
    /\ UNCHANGED <<args, undelivered, files, loaded, pending, include_future,
                   config, now, bootedImage, migration, current_image,
                   target_image, success, events, records, result, found,
                   called_at>>

(* lines 126-128 and 146-148: no rule applies *)
main_no_migration ==
    /\ pc = "MainMatched"
    /\ ~args.check
    /\ found = 0
    /\ output' = Said("No migration needed", << >>)
    /\ exit_code' = 0
    /\ pc' = "Exited"
    /\ UNCHANGED <<args, undelivered, files, loaded, pending, include_future,
                   config, now, bootedImage, migration, current_image,
                   target_image, success, events, records, result, found,
                   called_at>>

(* lines 125 and 130-136: a rule applies, so the condition of line 125 holds
   with or without --migrate; --dry-run prints the rule *)
main_dry_run ==
    /\ pc = "MainMatched"
    /\ ~args.check
    /\ args.migrate \/ found # 0
    /\ found # 0
    /\ args.dry_run
    /\ output' = Said("DRY RUN", config[found].to_image)
    /\ exit_code' = 0
    /\ pc' = "Exited"
    /\ UNCHANGED <<args, undelivered, files, loaded, pending, include_future,
                   config, now, bootedImage, migration, current_image,
                   target_image, success, events, records, result, found,
                   called_at>>

(* variant: --dry-run does not keep main from performing the migration *)
main_perform_migration_despite_dry_run ==
    /\ pc = "MainMatched"
    /\ ~args.check
    /\ args.migrate \/ found # 0
    /\ found # 0
    /\ migration' = config[found]
    /\ pc' = "Idle"
    /\ UNCHANGED <<args, exit_code, output, undelivered, files, loaded, pending,
                   include_future, config, now, bootedImage, current_image,
                   target_image, success, events, records, result, found,
                   called_at>>

(* lines 125 and 139: perform_migration is called with the rule found *)
main_perform_migration ==
    /\ pc = "MainMatched"
    /\ ~args.check
    /\ args.migrate \/ found # 0
    /\ found # 0
    /\ ~args.dry_run
    /\ migration' = config[found]
    /\ pc' = "Idle"
    /\ UNCHANGED <<args, exit_code, output, undelivered, files, loaded, pending,
                   include_future, config, now, bootedImage, current_image,
                   target_image, success, events, records, result, found,
                   called_at>>

(* variant: the exit code does not depend on what perform_migration returned *)
main_return_always_zero ==
    /\ pc \in {"NoOpSuccess", "Success", "Failed", "Raised"}
    /\ exit_code' = IF pc = "Raised" THEN 1 ELSE 0
    /\ output' = IF pc = "Raised" THEN Said("Unexpected error", << >>) ELSE output
    /\ pc' = "Exited"
    /\ UNCHANGED <<args, undelivered, files, loaded, pending, include_future,
                   config, now, bootedImage, migration, current_image,
                   target_image, success, events, records, result, found,
                   called_at>>

(* line 140, and lines 153-157 for the exception perform_migration lets
   through *)
main_return ==
    /\ pc \in {"NoOpSuccess", "Success", "Failed", "Raised"}
    /\ exit_code' = IF pc = "Raised" THEN 1
                    ELSE IF result = "true" THEN 0 ELSE 1
    /\ output' = IF pc = "Raised" THEN Said("Unexpected error", << >>) ELSE output
    /\ pc' = "Exited"
    /\ UNCHANGED <<args, undelivered, files, loaded, pending, include_future,
                   config, now, bootedImage, migration, current_image,
                   target_image, success, events, records, result, found,
                   called_at>>

(* lines 150-152: the user interrupts the run at any statement of the try
   block; KeyboardInterrupt is no Exception, so no handler below main's
   catches it *)
main_keyboard_interrupt ==
    /\ pc # "Exited"
    /\ exit_code' = 130
    /\ output' = Said("Operation cancelled by user", << >>)
    /\ pc' = "Exited"
    /\ UNCHANGED <<args, undelivered, files, loaded, pending, include_future,
                   config, now, bootedImage, migration, current_image,
                   target_image, success, events, records, result, found,
                   called_at>>

(* the configurations main is run on, as the text of their rules *)
MainRuleLiteral ==
    [name |-> "literal", from_pattern |-> << "a" >>, to_image |-> << "b" >>, reason |-> "eol"]
MainRuleTemplate ==
    [name |-> "template", from_pattern |-> << "a", "(", ".", "*", ")" >>,
     to_image |-> << "b", "\\", "1" >>, reason |-> "eol"]
MainRuleDated ==
    [name |-> "dated", from_pattern |-> << "a" >>, to_image |-> << "a", "b" >>, reason |-> "eol",
     effective_date |-> << "2", "0", "2", "4", "-", "0", "1", "-", "0", "2" >>]
MainRuleNamed ==
    [name |-> "named", from_pattern |-> << "a" >>,
     to_image |-> << "\\", "g", "<", "x", ">" >>, reason |-> "eol"]
MainRuleBlank ==
    [name |-> "blank", from_pattern |-> << "a" >>, to_image |-> << " " >>, reason |-> "eol"]
MainRuleLists ==
    { << >>, << MainRuleLiteral >>, << MainRuleTemplate >>, << MainRuleDated >>,
      << MainRuleDated, MainRuleLiteral >>, << MainRuleNamed >>, << MainRuleBlank >> }
MainFiles ==
    {[main |-> YamlFile(Migrations(l)), dir |-> MissingDirectory] : l \in MainRuleLists}
    \cup {[main |-> f, dir |-> MissingDirectory] :
            f \in {MissingFile, UnparsableFile, YamlFile(EmptyDict),
                   YamlFile(Migrations(<< RuleBadPattern >>))}}
    \cup {[main |-> YamlFile(Migrations(<< MainRuleDated >>)),
           dir |-> Directory({Entry(NameNine, YamlFile(Migrations(<< MainRuleTemplate >>)))})]}
CommandLines == [check : BOOLEAN, migrate : BOOLEAN, dry_run : BOOLEAN, force : BOOLEAN]

InitMain ==
    /\ args \in CommandLines
    /\ files \in MainFiles
    /\ bootedImage \in {<< "a" >>, << "a", "b" >>, << "b" >>}
    /\ now \in {0, MaxNow}
    /\ pc = "MainStart"
    /\ exit_code = NotExited
    /\ output = NoOutput
    /\ loaded = NotLoaded
    /\ config = << >>
    /\ migration = NoMigration
    /\ current_image = << >>
    /\ target_image = << >>
    /\ success = FALSE
    /\ events = << >>
    /\ records = << >>
    /\ result = "none"
    /\ found = 0
    /\ called_at = -1
    /\ pending = << >>
    /\ include_future = FALSE
    /\ undelivered = {}

NextMain ==
    \/ main_load_config
    \/ main_get_current_image
    \/ main_find_migration
    \/ main_check
    \/ main_no_migration
    \/ main_dry_run
    \/ main_perform_migration
    \/ perform_migration
    \/ main_return
    \/ main_keyboard_interrupt

SpecMain == InitMain /\ [][NextMain]_vars

-----------------------------------------------------------------------------
(* Properties of one run of main (SpecMain) *)

Exited == pc = "Exited"
Interrupted == Exited /\ output.message = "Operation cancelled by user"
(* main reached line 112 and was not interrupted afterwards *)
Completed == Exited /\ called_at # -1 /\ ~Interrupted
(* perform_migration has been called in this run *)
PerformCalled == migration # NoMigration
MainPositions ==
    {"MainStart", "MainConfigured", "MainImageKnown", "MainMatched", "Exited"}

(* C23: whenever --check or --dry-run is given, in any combination with
   --migrate and --force, main only reports: perform_migration and
   rebase_to_image are never called. *)
C23_ReportOnly ==
    (args.check \/ args.dry_run) =>
        /\ ~PerformCalled
        /\ pc \in MainPositions
        /\ events = << >>
        /\ result = "none"
        /\ records = << >>

(* a dry run with --migrate --force that printed the rule it found *)
C23_Witness ==
    /\ Exited
    /\ args.dry_run /\ args.migrate /\ args.force /\ ~args.check
    /\ found # 0
    /\ output.message = "DRY RUN"

(* C24: the exit code is 0 when no rule applies, when a check or dry run
   reports, or when perform_migration returns true (no-op included); 1 when
   configuration loading fails, the current image cannot be determined, or
   perform_migration returns false; 130 when the user interrupts the run. *)
C24_ExitCodes ==
    /\ ~Exited => exit_code = NotExited
    /\ Exited => exit_code \in {0, 1, 130}
    /\ Interrupted => exit_code = 130
    /\ (Exited /\ ~Interrupted) =>
          /\ loaded.status # "ok" => exit_code = 1
          /\ output.message = "Could not determine current bootc image" => exit_code = 1
          /\ output.message \in {"No migration needed", "Migration available", "DRY RUN"} => exit_code = 0
          /\ (called_at # -1 /\ found = 0) => exit_code = 0
          /\ result = "true" => exit_code = 0
          /\ result = "false" => exit_code = 1

(* the run ended with 1 after bootc switch failed *)
C24_Witness ==
    /\ Exited
    /\ ~Interrupted
    /\ exit_code = 1
    /\ result = "false"
    /\ SwitchReported(FALSE)

(* index of the first rule whose pattern matches the image, dated or not *)
RECURSIVE FirstMatchingFrom(_, _)
FirstMatchingFrom(i, image) ==
    IF i > Len(config) THEN 0
    ELSE IF PatternMatches(config[i], image) THEN i
    ELSE FirstMatchingFrom(i + 1, image)

(* C25: with --migrate --force, a rule whose from_pattern matches the current
   image but whose effective_date is still in the future is selected and its
   migration is performed.  Stated for the runs that switched nothing, in
   which bootc still reports the image main matched. *)
C25_ForceSelectsFutureRule ==
    LET first == FirstMatchingFrom(1, bootedImage)
    IN (/\ Completed
        /\ args.migrate /\ args.force /\ ~args.check /\ ~args.dry_run
        /\ events = << >>
        /\ first # 0
        /\ NotYetEffective(config[first], now))
       => (PerformCalled /\ migration = config[first])

(* C26: with none of --check, --migrate, --dry-run, main just checks and
   reports: when a rule applies it is reported as available but not
   requested and the switch collaborator is never invoked. *)
C26_NoFlagsOnlyReports ==
    (~args.check /\ ~args.migrate /\ ~args.dry_run /\ found # 0) =>
        /\ ~PerformCalled
        /\ ~SwitchInvoked

(* C29: the 'To:' that --check and --dry-run print for the rule found equals
   the target perform_migration would pass to rebase_to_image for the same
   rule and current image, for literal and template rules alike. *)
C29_ReportedTargetIsSwitchTarget ==
    (Exited /\ output.message \in {"Migration available", "DRY RUN"}) =>
        LET r == _resolve_target_image(config[found], current_image)
        IN ~r.raised /\ output.to = r.target

=============================================================================
